---- MODULE Spec2Model ----
(***************************************************************************)
(* A model of stock_crypto_tui.py (class StockCryptoTUI): the change       *)
(* calculators, the chart samplers, the two fetchers and display_grid.     *)
(*                                                                         *)
(* Time is counted in whole days.  A historical row is [ts, price]: the    *)
(* day of the row and its price (the 'Close' column of the yfinance frame, *)
(* or the second component of a CoinGecko (timestamp, price) pair).        *)
(* Prices are naturals.  A percentage is kept as the exact fraction n/d    *)
(* that the float expression ((cur - anchor) / anchor) * 100 denotes;      *)
(* float rounding is not modelled.                                         *)
(***************************************************************************)
EXTENDS Integers, Sequences, FiniteSets, TLC

VARIABLES
    call,       \* the method invoked directly, its arguments and its result
    pc,         \* position of display_grid: idle, fetch, done, crashed
    tickers,    \* display_grid's argument
    attempted,  \* history: tickers handed to a fetcher so far, in order
    fetched,    \* history: per attempted ticker, whether the fetcher returned a dict
    data_list,  \* display_grid's data_list
    panels,     \* tickers of the panels printed on the console
    console     \* "Failed to fetch" / "No data available" lines printed

vars == <<call, pc, tickers, attempted, fetched, data_list, panels, console>>

(***************************************************************************)
(* Bounds of the model.                                                    *)
(***************************************************************************)
MaxHist == 41       \* longest series given to the change calculators and get_friday_data
MaxPrices == 92     \* longest price list given to get_crypto_friday_data
MaxFetch == 8       \* longest series in a provider's response to a fetcher
MaxTickers == 3     \* longest ticker list given to display_grid

(***************************************************************************)
(* Calendar.                                                               *)
(***************************************************************************)
DaysPerYear == 365
Year(ts) == ts \div DaysPerYear
Weekday(ts) == ts % 7
WindowDays == 90
MaxPoints == 12
Stride == 7
Friday == 4

(***************************************************************************)
(* Python values.                                                          *)
(***************************************************************************)
None == [tag |-> "None"]
Some(v) == [tag |-> "some", v |-> v]
IsNone(x) == x.tag = "None"

Ret(v) == [exc |-> "none", val |-> v]
Raise(e) == [exc |-> e]
Raised(r) == r.exc # "none"

Num(n, d) == [kind |-> "num", n |-> n, d |-> d]
Zero == Num(0, 1)
Inf == [kind |-> "inf"]
NaN == [kind |-> "nan"]
IsFinite(c) == c.kind = "num"

\* ((cur - anchor) / anchor) * 100 on numpy float64 operands: a zero divisor
\* gives inf (nan for 0/0) and a RuntimeWarning, never an exception.
NumpyPct(cur, anchor) ==
    IF anchor = 0
    THEN IF cur - anchor = 0 THEN NaN ELSE Inf
    ELSE Num((cur - anchor) * 100, anchor)

\* The same expression on Python floats: a zero divisor raises.
PythonPct(cur, anchor) ==
    IF anchor = 0
    THEN Raise("ZeroDivisionError")
    ELSE Ret(Num((cur - anchor) * 100, anchor))

\* series.iloc[-k]: in bounds iff k <= len(series).
IlocInBounds(s, k) == k <= Len(s)
Iloc(s, k) == s[Len(s) - k + 1]

\* series.tail(k)
TailN(s, k) == IF Len(s) <= k THEN s ELSE SubSeq(s, Len(s) - k + 1, Len(s))

Prices(rows) == [i \in 1..Len(rows) |-> rows[i].price]

(***************************************************************************)
(* calculate_changes(hist_data, current_price), with datetime.now() = now. *)
(***************************************************************************)
calculate_changes(hist, cur, now) ==
    LET rows == hist.rows
        n == Len(rows)
        InYear(r) == Year(r.ts) = Year(now)
        ytd_data == SelectSeq(rows, InYear)
    IN  IF n = 0
        THEN Ret([h24 |-> Zero, d7 |-> Zero, d30 |-> Zero, ytd |-> Zero])
        ELSE IF n >= 7 /\ ~IlocInBounds(rows, 8)
        THEN Raise("IndexError")
        ELSE IF n >= 30 /\ ~IlocInBounds(rows, 31)
        THEN Raise("IndexError")
        ELSE Ret([h24 |-> IF n >= 2
                          THEN NumpyPct(cur, Iloc(rows, 2).price)
                          ELSE Zero,
                  d7  |-> IF n >= 7
                          THEN NumpyPct(cur, Iloc(rows, 8).price)
                          ELSE Zero,
                  d30 |-> IF n >= 30
                          THEN NumpyPct(cur, Iloc(rows, 31).price)
                          ELSE Zero,
                  ytd |-> IF Len(ytd_data) > 0
                          THEN NumpyPct(cur, ytd_data[1].price)
                          ELSE NumpyPct(cur, rows[1].price)])

(***************************************************************************)
(* calculate_ytd_change(price_data, current_price): current_price is the   *)
(* JSON value of the price field, possibly null.                           *)
(***************************************************************************)
RECURSIVE FirstAtOrAfter(_, _, _)
\* The for loop of lines 244-247: the index of the first pair whose timestamp
\* is >= year_start, 0 when the loop ends without a break.
FirstAtOrAfter(price_data, year_start, i) ==
    IF i > Len(price_data) THEN 0
    ELSE IF price_data[i].ts >= year_start THEN i
    ELSE FirstAtOrAfter(price_data, year_start, i + 1)

calculate_ytd_change(price_data, current_price, now) ==
    IF Len(price_data) = 0
    THEN Ret(Zero)
    ELSE LET year_start == Year(now) * DaysPerYear
             k == FirstAtOrAfter(price_data, year_start, 1)
         IN  IF k = 0 THEN Ret(Zero)
             ELSE IF IsNone(current_price) THEN Raise("TypeError")
             ELSE PythonPct(current_price.v, price_data[k].price)

(***************************************************************************)
(* get_friday_data(hist_data).  The frame's index is either timezone-naive *)
(* or timezone-aware; comparing an aware index with the naive               *)
(* datetime.now() - timedelta(days=90) raises TypeError inside the try,    *)
(* and the except clause returns the tail of the whole frame.              *)
(***************************************************************************)
get_friday_data(hist, now) ==
    LET rows == hist.rows
        three_months_ago == now - WindowDays
        Recent(r) == r.ts >= three_months_ago
        IsFriday(r) == Weekday(r.ts) = Friday
        recent_data == SelectSeq(rows, Recent)
        friday_data == SelectSeq(recent_data, IsFriday)
    IN  IF Len(rows) = 0 THEN <<>>
        ELSE IF hist.tz_aware THEN Prices(TailN(rows, MaxPoints))
        ELSE IF Len(friday_data) > 0 THEN Prices(TailN(friday_data, MaxPoints))
        ELSE Prices(TailN(recent_data, MaxPoints))

(***************************************************************************)
(* get_crypto_friday_data(price_data)                                      *)
(***************************************************************************)
RECURSIVE SampleLoopUncapped(_, _, _)
\* The loop without the test len(friday_data) < 12.
SampleLoopUncapped(recent_data, i, friday_data) ==
    IF i >= Len(recent_data) THEN friday_data
    ELSE SampleLoopUncapped(recent_data, i + Stride,
                            Append(friday_data, recent_data[i + 1].price))

RECURSIVE SampleLoop(_, _, _)
\* for i in range(0, len(recent_data), 7): i is the 0-based index.
SampleLoop(recent_data, i, friday_data) ==
    IF i >= Len(recent_data) THEN friday_data
    ELSE SampleLoop(recent_data, i + Stride,
                    IF Len(friday_data) < MaxPoints
                    THEN Append(friday_data, recent_data[i + 1].price)
                    ELSE friday_data)

get_crypto_friday_data(price_data, now) ==
    LET three_months_ago_ts == now - WindowDays
        Recent(r) == r.ts >= three_months_ago_ts
        recent_data == SelectSeq(price_data, Recent)
    IN  IF Len(price_data) = 0 THEN <<>>
        ELSE SampleLoop(recent_data, 0, <<>>)

(***************************************************************************)
(* Tickers.  str.upper() is given by its table on the tickers used.        *)
(***************************************************************************)
TickerNames == {"btc", "aapl", "HBAR"}

Upper(t) ==
    CASE t = "btc" -> "BTC"
      [] t = "aapl" -> "AAPL"
      [] OTHER -> t

\* The list of line 406.
CryptoTickers ==
    {"BTC", "ETH", "ADA", "DOT", "LINK", "LTC", "XRP", "DOGE", "SHIB",
     "MATIC", "AVAX", "SOL"}

(***************************************************************************)
(* get_stock_data(ticker).  resp is what yfinance gives: error (stock.info *)
(* or stock.history raises), info (each key absent/None or a number) and   *)
(* hist.  Every exception ends in the except clause, which returns None.   *)
(***************************************************************************)
ResolvePrice(info, rows) ==
    IF ~IsNone(info.currentPrice) THEN info.currentPrice
    ELSE IF ~IsNone(info.regularMarketPrice) THEN info.regularMarketPrice
    ELSE IF ~IsNone(info.previousClose) THEN info.previousClose
    ELSE Some(Iloc(rows, 1).price)

get_stock_data(ticker, resp, now) ==
    IF resp.error THEN None
    ELSE IF Len(resp.hist.rows) = 0 THEN None
    ELSE LET current_price == ResolvePrice(resp.info, resp.hist.rows)
         IN  IF IsNone(current_price) \/ current_price.v <= 0 THEN None
             ELSE LET changes == calculate_changes(resp.hist, current_price.v, now)
                  IN  IF Raised(changes) THEN None
                      ELSE [tag |-> "dict",
                            ticker |-> Upper(ticker),
                            current_price |-> current_price,
                            changes |-> changes.val,
                            friday_data |-> get_friday_data(resp.hist, now),
                            type |-> "stock"]

(***************************************************************************)
(* get_crypto_data(ticker).  resp is what CoinGecko gives: status says how *)
(* far the two requests get ("error": the price request raises;            *)
(* "no_coin": coin_id is not in the answer; "no_currency": the coin has no *)
(* price field, a KeyError; "hist_error": the market_chart request raises; *)
(* "ok"), price is the JSON price (possibly null), chg the provider's      *)
(* change fields (None: key absent) and prices the market chart.           *)
(***************************************************************************)
ChangeOrDefault(field) == IF IsNone(field) THEN Zero ELSE field.v

get_crypto_data(ticker, resp, now) ==
    IF resp.status = "error" THEN None
    ELSE IF resp.status = "no_coin" THEN None
    ELSE IF resp.status = "no_currency" THEN None
    ELSE IF resp.status = "hist_error" THEN None
    ELSE LET current_price == resp.price
             ytd_change == calculate_ytd_change(resp.prices, current_price, now)
         IN  IF Raised(ytd_change) THEN None
             ELSE [tag |-> "dict",
                   ticker |-> Upper(ticker),
                   current_price |-> current_price,
                   changes |-> [h24 |-> ChangeOrDefault(resp.chg.h24),
                                d7  |-> ChangeOrDefault(resp.chg.d7),
                                d30 |-> ChangeOrDefault(resp.chg.d30),
                                ytd |-> ytd_change.val],
                   friday_data |-> get_crypto_friday_data(resp.prices, now),
                   type |-> "crypto"]

(***************************************************************************)
(* display_grid(tickers)                                                   *)
(***************************************************************************)
IsCrypto(ticker) == Upper(ticker) \in CryptoTickers

\* create_ticker_panel -> format_price(data['current_price']): the
\* comparison price >= 1000 raises TypeError on None.
PanelRaises(data) == IsNone(data.current_price)

AnyPanelRaises(list) == \E i \in 1..Len(list) : PanelRaises(list[i])

PanelsOf(list) == [i \in 1..Len(list) |-> list[i].ticker]

(***************************************************************************)
(* Inputs.  A series is generated from a few parameters: its length, the   *)
(* age in days of its last row, the distance in days between rows, and     *)
(* which row (if any) has price 0.  Rows are chronological, none is later  *)
(* than now.                                                               *)
(***************************************************************************)
\* New Year's Day of the current year, and the days datetime.now() is drawn from.
YearStart == 3 * DaysPerYear
Nows == {YearStart + d : d \in {0, 5, 45, 200}}
LastAges == {0, 3, 100}
Steps == {1, 7}
ZeroModes == {"none", "h24", "d7", "d30", "head", "last", "ystart"}

RowTs(p, now, i) == now - p.lastAge - (p.len - i) * p.step

IsZeroRow(p, now, i) ==
    \/ p.zero = "h24" /\ i = p.len - 1
    \/ p.zero = "d7" /\ i = p.len - 7
    \/ p.zero = "d30" /\ i = p.len - 30
    \/ p.zero = "head" /\ i = 1
    \/ p.zero = "last" /\ i = p.len
    \/ /\ p.zero = "ystart"
       /\ Year(RowTs(p, now, i)) = Year(now)
       /\ (i = 1 \/ Year(RowTs(p, now, i - 1)) # Year(now))

Series(p, now) ==
    [i \in 1..p.len |->
        [ts |-> RowTs(p, now, i),
         price |-> IF IsZeroRow(p, now, i) THEN 0 ELSE 100 + i - 1]]

HistParams ==
    [len : 0..MaxHist, lastAge : LastAges, step : Steps, zero : ZeroModes]

SampleParams ==
    [len : 0..MaxPrices, lastAge : LastAges \cup {1}, step : Steps, zero : {"none"}]

FetchParams ==
    [len : 0..MaxFetch, lastAge : {0, 3}, step : {1}, zero : {"none", "last", "ystart"}]

PositivePrices == {5, 139}
JsonPrices == {None, Some(0), Some(139)}

StockResponses(now) ==
    [error : BOOLEAN,
     info : [currentPrice : JsonPrices, regularMarketPrice : {None, Some(0)},
             previousClose : {None, Some(139)}],
     hist : {[rows |-> Series(p, now), tz_aware |-> tz] :
                p \in FetchParams, tz \in BOOLEAN}]

ProviderChanges ==
    {[h24 |-> None, d7 |-> None, d30 |-> None],
     [h24 |-> Some(Num(-3, 1)), d7 |-> None, d30 |-> None]}

CryptoResponses(now) ==
    [status : {"error", "no_coin", "no_currency", "hist_error", "ok"},
     price : JsonPrices,
     chg : ProviderChanges,
     prices : {Series(p, now) : p \in FetchParams}]

\* The responses display_grid's fetches draw from.
GridNow == YearStart + 5
GridHist(len, zero) ==
    [rows |-> Series([len |-> len, lastAge |-> 0, step |-> 1, zero |-> zero], GridNow),
     tz_aware |-> FALSE]
GridInfo(price) ==
    [currentPrice |-> price, regularMarketPrice |-> None, previousClose |-> None]
GridStockResponses ==
    {[error |-> FALSE, info |-> GridInfo(Some(139)), hist |-> GridHist(3, "none")],
     [error |-> FALSE, info |-> GridInfo(Some(139)), hist |-> GridHist(0, "none")],
     [error |-> FALSE, info |-> GridInfo(Some(0)), hist |-> GridHist(3, "none")],
     [error |-> FALSE, info |-> GridInfo(None), hist |-> GridHist(7, "none")],
     [error |-> TRUE, info |-> GridInfo(None), hist |-> GridHist(0, "none")]}
GridCryptoResponse(status, price, len) ==
    [status |-> status, price |-> price,
     chg |-> [h24 |-> None, d7 |-> None, d30 |-> None],
     prices |-> GridHist(len, "none").rows]
GridCryptoResponses ==
    {GridCryptoResponse("ok", Some(139), 3),
     GridCryptoResponse("ok", Some(0), 3),
     GridCryptoResponse("ok", None, 3),
     GridCryptoResponse("ok", None, 0),
     GridCryptoResponse("no_coin", None, 0),
     GridCryptoResponse("error", None, 0)}

TickerLists ==
    UNION {[1..n -> TickerNames] : n \in 1..MaxTickers}

NoCall == [op |-> "none"]

Init ==
    /\ call = NoCall
    /\ pc = "idle"
    /\ tickers = <<>>
    /\ attempted = <<>>
    /\ fetched = <<>>
    /\ data_list = <<>>
    /\ panels = <<>>
    /\ console = <<>>

grid == <<pc, tickers, attempted, fetched, data_list, panels, console>>

(***************************************************************************)
(* A method invoked on its own: the call record keeps the arguments, the   *)
(* value of datetime.now() and the result.                                 *)
(***************************************************************************)
CallCalculateChanges ==
    /\ pc = "idle" /\ call = NoCall
    /\ \E p \in HistParams, now \in Nows, cur \in PositivePrices :
          LET hist == [rows |-> Series(p, now), tz_aware |-> FALSE]
          IN call' = [op |-> "calculate_changes", hist |-> hist, cur |-> cur,
                      now |-> now, ret |-> calculate_changes(hist, cur, now)]
    /\ UNCHANGED grid

CallCalculateYtdChange ==
    /\ pc = "idle" /\ call = NoCall
    /\ \E p \in HistParams, now \in Nows, cur \in PositivePrices :
          /\ p.step = 1
          /\ p.zero \in {"none", "head", "ystart"}
          /\ LET price_data == Series(p, now)
             IN call' = [op |-> "calculate_ytd_change", price_data |-> price_data,
                         cur |-> cur, now |-> now,
                         ret |-> calculate_ytd_change(price_data, Some(cur), now)]
    /\ UNCHANGED grid

CallGetFridayData ==
    /\ pc = "idle" /\ call = NoCall
    /\ \E p \in HistParams, now \in Nows, tz \in BOOLEAN :
          /\ p.zero = "none"
          /\ LET hist == [rows |-> Series(p, now), tz_aware |-> tz]
             IN call' = [op |-> "get_friday_data", hist |-> hist, now |-> now,
                         ret |-> get_friday_data(hist, now)]
    /\ UNCHANGED grid

CallGetCryptoFridayData ==
    /\ pc = "idle" /\ call = NoCall
    /\ \E p \in SampleParams, now \in Nows :
          /\ now = GridNow
          /\ LET price_data == Series(p, now)
             IN call' = [op |-> "get_crypto_friday_data", price_data |-> price_data,
                         now |-> now, ret |-> get_crypto_friday_data(price_data, now)]
    /\ UNCHANGED grid

CallGetStockData ==
    /\ pc = "idle" /\ call = NoCall
    /\ \E ticker \in TickerNames, now \in {GridNow} :
          \E resp \in StockResponses(now) :
             /\ ~IsCrypto(ticker)
             /\ call' = [op |-> "get_stock_data", ticker |-> ticker, resp |-> resp,
                         now |-> now, ret |-> get_stock_data(ticker, resp, now)]
    /\ UNCHANGED grid

CallGetCryptoData ==
    /\ pc = "idle" /\ call = NoCall
    /\ \E ticker \in TickerNames, now \in {GridNow} :
          \E resp \in CryptoResponses(now) :
             /\ IsCrypto(ticker)
             /\ call' = [op |-> "get_crypto_data", ticker |-> ticker, resp |-> resp,
                         now |-> now, ret |-> get_crypto_data(ticker, resp, now)]
    /\ UNCHANGED grid

CallReturn ==
    /\ call # NoCall
    /\ call' = NoCall
    /\ UNCHANGED grid

(***************************************************************************)
(* display_grid(tickers): one step per iteration of the fetch loop, then   *)
(* the rest of the method in one step.                                     *)
(***************************************************************************)
DisplayGridStart ==
    /\ pc = "idle" /\ call = NoCall
    /\ \E ts \in TickerLists : tickers' = ts
    /\ pc' = "fetch"
    /\ attempted' = <<>>
    /\ fetched' = <<>>
    /\ data_list' = <<>>
    /\ panels' = <<>>
    /\ console' = <<>>
    /\ UNCHANGED call

DisplayGridFetch ==
    /\ pc = "fetch"
    /\ Len(attempted) < Len(tickers)
    /\ LET ticker == tickers[Len(attempted) + 1]
       IN \E data \in IF IsCrypto(ticker)
                      THEN {get_crypto_data(ticker, r, GridNow) : r \in GridCryptoResponses}
                      ELSE {get_stock_data(ticker, r, GridNow) : r \in GridStockResponses} :
             /\ attempted' = Append(attempted, ticker)
             /\ fetched' = Append(fetched, ~IsNone(data))
             /\ data_list' = IF IsNone(data) THEN data_list ELSE Append(data_list, data)
             /\ console' = IF IsNone(data)
                           THEN Append(console, <<"Failed to fetch data for", ticker>>)
                           ELSE console
    /\ UNCHANGED <<call, pc, tickers, panels>>

DisplayGridRender ==
    /\ pc = "fetch"
    /\ Len(attempted) = Len(tickers)
    /\ IF Len(data_list) = 0
       THEN /\ console' = Append(console, <<"No data available for any tickers", "">>)
            /\ pc' = "done"
            /\ panels' = <<>>
       ELSE IF AnyPanelRaises(data_list)
       THEN /\ pc' = "crashed"
            /\ panels' = <<>>
            /\ console' = console
       ELSE /\ pc' = "done"
            /\ panels' = PanelsOf(data_list)
            /\ console' = console
    /\ UNCHANGED <<call, tickers, attempted, fetched, data_list>>

DisplayGridReturn ==
    /\ pc \in {"done", "crashed"}
    /\ pc' = "idle"
    /\ tickers' = <<>>
    /\ attempted' = <<>>
    /\ fetched' = <<>>
    /\ data_list' = <<>>
    /\ panels' = <<>>
    /\ console' = <<>>
    /\ UNCHANGED call

Next ==
    \/ CallCalculateChanges
    \/ CallCalculateYtdChange
    \/ CallGetFridayData
    \/ CallGetCryptoFridayData
    \/ CallGetStockData
    \/ CallGetCryptoData
    \/ CallReturn
    \/ DisplayGridStart
    \/ DisplayGridFetch
    \/ DisplayGridRender
    \/ DisplayGridReturn

Spec == Init /\ [][Next]_vars

(***************************************************************************)
(* The properties.                                                         *)
(***************************************************************************)
Min(a, b) == IF a <= b THEN a ELSE b
CeilDiv(a, b) == (a + b - 1) \div b

\* The rows of the 90-day window, and the rows of the current calendar year.
InWindow(rows, now) == SelectSeq(rows, LAMBDA r : r.ts >= now - WindowDays)
InThisYear(rows, now) == SelectSeq(rows, LAMBDA r : Year(r.ts) = Year(now))
Fridays(rows) == SelectSeq(rows, LAMBDA r : Weekday(r.ts) = Friday)

\* (current - anchor) / anchor * 100, for a nonzero anchor.
Pct(cur, anchor) == Num((cur - anchor) * 100, anchor)

RECURSIVE IsSubsequence(_, _, _, _)
\* a[i..] can be found, in order, within b[j..].
IsSubsequence(a, b, i, j) ==
    IF i > Len(a) THEN TRUE
    ELSE IF j > Len(b) THEN FALSE
    ELSE IF a[i] = b[j] THEN IsSubsequence(a, b, i + 1, j + 1)
    ELSE IsSubsequence(a, b, i, j + 1)

Changes == {"h24", "d7", "d30", "ytd"}

IsStockCall == call.op = "calculate_changes"
IsYtdCall == call.op = "calculate_ytd_change"
IsFridayCall == call.op = "get_friday_data"
IsCryptoFridayCall == call.op = "get_crypto_friday_data"

\* C1: calculate_changes raises no exception and returns a ChangeSet with all
\* four fields for every chronological series of any length, the lengths 7
\* and 30 included, and every positive current price.
C1_NeverRaises ==
    IsStockCall =>
        /\ ~Raised(call.ret)
        /\ DOMAIN call.ret.val = Changes

\* C2: with nonzero anchors, calculate_changes returns h24 = 0 when len < 2 and
\* otherwise the change against series[len-2]; d7 = 0 when len < 7 and
\* otherwise the change against series[len-8]; d30 = 0 when len < 30 and
\* otherwise the change against series[len-31] (0-based indices; rows is
\* 1-based, so series[len-k] is rows[len-k+1]).
C2_PositionalAnchors ==
    IsStockCall /\ (\A i \in 1..Len(call.hist.rows) : call.hist.rows[i].price # 0) =>
        LET rows == call.hist.rows
            n == Len(rows)
            cur == call.cur
        IN  /\ ~Raised(call.ret)
            /\ call.ret.val.h24 = IF n < 2 THEN Zero ELSE Pct(cur, rows[n - 1].price)
            /\ call.ret.val.d7 = IF n < 7 THEN Zero ELSE Pct(cur, rows[n - 7].price)
            /\ call.ret.val.d30 = IF n < 30 THEN Zero ELSE Pct(cur, rows[n - 30].price)

\* The YTD value C3 describes: 0 for an empty series, otherwise the change
\* against the earliest row of the current year, or against series[0] when no
\* row falls in the current year.
YtdAnchor(rows, now) ==
    IF Len(InThisYear(rows, now)) > 0 THEN InThisYear(rows, now)[1] ELSE rows[1]
ExpectedYtd(rows, cur, now) ==
    IF Len(rows) = 0 THEN Zero ELSE Pct(cur, YtdAnchor(rows, now).price)

\* C3: on the stock path and on the crypto path alike, whenever a YTD change
\* is returned it is computed against the earliest row of the current year,
\* against series[0] when no row falls in the current year, and is 0 for an
\* empty series (stated for nonzero anchors).
C3_YtdAnchor ==
    /\ IsStockCall /\ ~Raised(call.ret)
       /\ (call.hist.rows # <<>> => YtdAnchor(call.hist.rows, call.now).price # 0)
       => call.ret.val.ytd = ExpectedYtd(call.hist.rows, call.cur, call.now)
    /\ IsYtdCall /\ ~Raised(call.ret)
       /\ (call.price_data # <<>> => YtdAnchor(call.price_data, call.now).price # 0)
       => call.ret.val = ExpectedYtd(call.price_data, call.cur, call.now)

\* C4: a zero anchor never produces a division error or a non-finite value:
\* every value of every ChangeSet returned is finite, and the crypto YTD
\* computation does not raise on a zero anchor.
C4_FiniteChanges ==
    /\ IsStockCall /\ ~Raised(call.ret)
       => \A f \in Changes : IsFinite(call.ret.val[f])
    /\ IsYtdCall
       => /\ call.ret.exc # "ZeroDivisionError"
          /\ ~Raised(call.ret) => IsFinite(call.ret.val)

\* What C5 says of a sampler's output out for the series rows.
SamplerBounded(rows, now, out) ==
    /\ Len(out) <= 12
    /\ Len(out) <= Len(InWindow(rows, now))
    /\ IsSubsequence(out, Prices(rows), 1, 1)
    /\ rows = <<>> => out = <<>>

\* C5: the output of either sampler has at most 12 elements, at most as many
\* as the 90-day window holds, and is a subsequence of the input prices in
\* their order; on an empty series it is empty.
C5_SamplerBounded ==
    /\ IsFridayCall => SamplerBounded(call.hist.rows, call.now, call.ret)
    /\ IsCryptoFridayCall => SamplerBounded(call.price_data, call.now, call.ret)

\* C6: get_friday_data returns exactly the last 12 (or all) Friday rows of the
\* 90-day window when the window holds a Friday, and otherwise exactly the
\* last 12 (or all) rows of the window.
C6_FridayTail ==
    IsFridayCall =>
        LET w == InWindow(call.hist.rows, call.now)
        IN  call.ret = IF Len(Fridays(w)) > 0
                       THEN Prices(TailN(Fridays(w), MaxPoints))
                       ELSE Prices(TailN(w, MaxPoints))

\* C7: for a crypto series whose 90-day window W holds n rows,
\* get_crypto_friday_data returns the prices of W at the 0-based indices
\* 0, 7, 14, ..., exactly min(ceil(n/7), 12) of them.
C7_StrideSample ==
    IsCryptoFridayCall =>
        LET w == InWindow(call.price_data, call.now)
            n == Len(w)
        IN  /\ Len(call.ret) = Min(CeilDiv(n, 7), 12)
            /\ \A k \in 1..Len(call.ret) : call.ret[k] = w[7 * (k - 1) + 1].price

\* C7's case: a window of 90 rows, sampled to 12 prices.
C7_Witness ==
    /\ IsCryptoFridayCall
    /\ Len(InWindow(call.price_data, call.now)) = 90
    /\ Len(call.price_data) > 90
    /\ Len(call.ret) = 12

\* C8: when the series is not empty and its 90-day window is, either sampler
\* returns the last 12 (or all) rows of the whole series.
C8_EmptyWindowFallback ==
    /\ IsFridayCall /\ call.hist.rows # <<>>
       /\ InWindow(call.hist.rows, call.now) = <<>>
       => call.ret = Prices(TailN(call.hist.rows, MaxPoints))
    /\ IsCryptoFridayCall /\ call.price_data # <<>>
       /\ InWindow(call.price_data, call.now) = <<>>
       => call.ret = Prices(TailN(call.price_data, MaxPoints))

\* C9: every snapshot get_stock_data or get_crypto_data produces has a current
\* price that is present and greater than 0.
C9_PositivePrice ==
    call.op \in {"get_stock_data", "get_crypto_data"} /\ ~IsNone(call.ret) =>
        /\ ~IsNone(call.ret.current_price)
        /\ call.ret.current_price.v > 0

\* The tickers whose fetch succeeded, upper-cased, in list order.
RECURSIVE Succeeded(_, _, _)
Succeeded(ts, ok, i) ==
    IF i > Len(ts) THEN <<>>
    ELSE IF ok[i] THEN <<Upper(ts[i])>> \o Succeeded(ts, ok, i + 1)
    ELSE Succeeded(ts, ok, i + 1)

\* C10: in a display_grid pass the tickers are attempted once each in list
\* order, a failed ticker never stops the later ones from being attempted, and
\* when the pass ends the panels rendered are exactly those of the tickers
\* whose fetch succeeded, in list order.
C10_BatchIsolation ==
    /\ attempted = SubSeq(tickers, 1, Len(attempted))
    /\ Len(fetched) = Len(attempted)
    /\ pc \in {"done", "crashed"} =>
          /\ attempted = tickers
          /\ panels = Succeeded(tickers, fetched, 1)

====
